---------------------------- MODULE Spec2Model ----------------------------
(***************************************************************************)
(* A model of the reV analysis configuration classes                       *)
(* (src/reV/config/analysis_configs.py: SAMAnalysisConfig, GenConfig,      *)
(* EconConfig) and of the LCOE orchestrator (src/reV/lcoe/lcoe.py).        *)
(*                                                                         *)
(* Python text (paths, dataset names) is modelled as a sequence of         *)
(* one-character strings, so that substring tests, str.format, str() of a  *)
(* list and endswith are computed the way Python computes them.  None is   *)
(* the value None, and "unset" stands for an attribute that does not       *)
(* exist on the instance (hasattr is False).                               *)
(***************************************************************************)
EXTENDS Integers, Sequences, FiniteSets, TLC

VARIABLES
    \* ---- SAMAnalysisConfig.output_request
    cfg_output_request, \* raw config: project_control['output_request']
    _output_request,    \* the cached list, or None
    warnings,           \* the ConfigWarnings emitted so far, in order
    \* ---- SAMAnalysisConfig.points_control
    option,             \* execution_control.option
    nodes,              \* execution_control.nodes
    ppn,                \* execution_control.ppn
    npoints,            \* len(ProjectPoints(...))
    _pc,                \* the cached PointsControl, or None
    pc_ret,             \* outcome of the last points_control access
    \* ---- GenConfig.res_files / EconConfig.cf_files
    cls,                \* the class of the instance: "gen" or "econ"
    fname,              \* raw config: 'resource_file' (gen) or 'cf_file' (econ)
    years,              \* self.years, the analysis years
    missing,            \* the paths that do not exist on disk
    _res_files,         \* GenConfig's cached list, or None
    _cf_files,          \* EconConfig's cached list, or None
    checked,            \* the lists handed to check_files so far, in order
    naccess,            \* accesses to res_files / cf_files so far
    file_ret,           \* outcome of the last res_files / cf_files access
    \* ---- LCOE (lcoe.py)
    cf_year,            \* self._cf_year
    dsets,              \* the dataset names of the cf file (Outputs.dsets)
    meta,               \* the meta table of the cf file (Outputs.meta)
    _site_data,         \* self._site_data, or Unset
    _meta,              \* self._meta, or Unset
    _site_df,           \* self._site_df, or Unset
    cf_source,          \* where site_df took its capacity factors from
    n_offshore,         \* times the offshore flag was attached to _site_df
    n_merge,            \* times site_data was merged into _site_df
    last_op,            \* the last operation called on the instance
    lcoe_ret,           \* its outcome
    \* ---- LCOE.run_direct and LCOE.flush (lcoe.py)
    run_pc,             \* the position of run_direct in its code
    pc_sites,           \* pc.sites, the requested site identifiers
    pc_split,           \* the partition size of the points control pc
    n_workers,          \* the argument n_workers
    site_data_arg,      \* the argument site_data
    return_obj,         \* the argument return_obj
    _fout,              \* self._fout: None or a file name
    _dirout,            \* self._dirout
    kwargs_site_df,     \* kwargs['site_df'], or Unset
    dispatched,         \* the partitions handed to LCOE.run so far, in order
    returned,           \* partition index -> its result, for those returned
    _out,               \* self.out, or Unset
    writes,             \* the calls of Outputs.write_means so far, in order
    n_flush,            \* calls of flush so far
    flush_ret,          \* outcome of the last call of flush
    run_ret,            \* outcome of run_direct
    \* ---- optional fields of GenConfig, ExclConfig and EconConfig
    prop,               \* the property that is accessed
    raw,                \* the entry of the raw config for its key
    _field,             \* the private attribute behind the property
    n_resolve,          \* times the resolution block of the property ran
    n_field_acc,        \* accesses of the property so far
    field_ret           \* the value the last access returned

\* Python's None, and a value that is not None.
None == [kind |-> "None"]
Val(v) == [kind |-> "val", val |-> v]
\* An attribute the instance does not have (hasattr is False).
Unset == [kind |-> "unset"]

outVars == <<cfg_output_request, _output_request, warnings>>
pcVars == <<option, nodes, ppn, npoints, _pc, pc_ret>>
fileVars == <<cls, fname, years, missing, _res_files, _cf_files, checked,
              naccess, file_ret>>
lcoeVars == <<cf_year, dsets, meta, _site_data, _meta, _site_df, cf_source,
              n_offshore, n_merge, last_op, lcoe_ret>>
runVars == <<run_pc, pc_sites, pc_split, n_workers, site_data_arg,
             return_obj, flush_ret, _fout, _dirout, kwargs_site_df, dispatched, returned, _out,
             writes, n_flush, run_ret>>
cfgVars == <<prop, raw, _field, n_resolve, n_field_acc, field_ret>>
vars == <<outVars, pcVars, fileVars, lcoeVars, runVars, cfgVars>>

\* ------------------------------------------------------------------------
\* Bounds of the model
\* ------------------------------------------------------------------------
MaxReq == 2      \* longest output_request list
MaxSites == 4    \* largest number of project points
MaxDiv == 3      \* largest node count / process count
MaxYears == 2    \* longest list of analysis years
MaxAccess == 2   \* accesses to res_files / cf_files that are followed

\* ------------------------------------------------------------------------
\* Sequences
\* ------------------------------------------------------------------------
SeqsUpTo(S, n) == UNION {[1..k -> S] : k \in 0..n}

\* ========================================================================
\* SAMAnalysisConfig.output_request
\* ========================================================================

\* The map of commonly expected typos (analysis_configs.py:113-134).
corrections ==
    [k \in {"cf_means", "cf", "capacity_factor", "capacityfactor",
            "cf_profiles", "profiles", "profile", "generation", "yield",
            "generation_profile", "generation_profiles", "plane_of_array",
            "plane_of_array_irradiance", "gen_profiles", "lcoe",
            "lcoe_nominal", "real_lcoe", "net_present_value", "ppa",
            "single_owner", "singleowner"} |->
        CASE k \in {"cf_means", "cf", "capacity_factor", "capacityfactor"}
                -> "cf_mean"
          [] k \in {"cf_profiles", "profiles", "profile"} -> "cf_profile"
          [] k = "generation" -> "annual_energy"
          [] k = "yield" -> "energy_yield"
          [] k \in {"generation_profile", "generation_profiles",
                    "gen_profiles"} -> "gen_profile"
          [] k \in {"plane_of_array", "plane_of_array_irradiance"} -> "poa"
          [] k = "lcoe" -> "lcoe_fcr"
          [] k = "lcoe_nominal" -> "lcoe_nom"
          [] k = "real_lcoe" -> "lcoe_real"
          [] k = "net_present_value" -> "npv"
          [] k \in {"ppa", "single_owner", "singleowner"} -> "ppa_price"]

CorrectionKeys == DOMAIN corrections
CorrectionValues == {corrections[k] : k \in CorrectionKeys}

\* The names a request may hold in the model: canonical names, aliases and
\* names the table does not know.
RequestNames == {"cf_mean", "lcoe_fcr", "cf", "cf_means", "lcoe", "yield",
                 "wind_speed"}

\* One pass of the loop body (analysis_configs.py:146-159): the entry that is
\* appended, and the warning that is emitted (if any).
ResolvedEntryUncorrected(request) == request

ResolvedEntry(request) ==
    IF request \in CorrectionValues THEN request
    ELSE IF request \in CorrectionKeys THEN corrections[request]
    ELSE request

EmittedWarning(request) ==
    IF request \in CorrectionValues THEN <<>>
    ELSE IF request \in CorrectionKeys
         THEN <<[kind |-> "corrected", request |-> request,
                 to |-> corrections[request]]>>
    ELSE <<[kind |-> "unrecognized", request |-> request]>>

\* The for loop over temp (analysis_configs.py:146-159), from entry i on.
RECURSIVE ResolveFrom(_, _)
ResolveFrom(temp, i) ==
    IF i > Len(temp) THEN [out |-> <<>>, warned |-> <<>>]
    ELSE LET rest == ResolveFrom(temp, i + 1)
         IN  [out |-> <<ResolvedEntry(temp[i])>> \o rest.out,
              warned |-> EmittedWarning(temp[i]) \o rest.warned]

\* temp as the loop sees it (analysis_configs.py:139-144).
RequestedList(cfg) ==
    IF cfg.kind = "absent" THEN <<"cf_mean">>
    ELSE IF cfg.kind = "str" THEN <<cfg.val>>
    ELSE cfg.val

\* The property access (analysis_configs.py:136-161).
OutputRequest ==
    /\ IF _output_request = None
       THEN LET r == ResolveFrom(RequestedList(cfg_output_request), 1)
            IN  /\ _output_request' = Val(r.out)
                /\ warnings' = warnings \o r.warned
       ELSE UNCHANGED <<_output_request, warnings>>
    /\ UNCHANGED <<cfg_output_request, pcVars, fileVars, lcoeVars, runVars, cfgVars>>

OutInit ==
    /\ cfg_output_request \in
          {[kind |-> "absent"]}
          \cup {[kind |-> "str", val |-> n] : n \in RequestNames}
          \cup {[kind |-> "list", val |-> l] : l \in SeqsUpTo(RequestNames, MaxReq)}
    /\ _output_request = None
    /\ warnings = <<>>

\* C1: once output_request has been resolved, the list has the length and
\* order of the request (a single string counting as a one-element list);
\* each entry is the requested name if it is a value of the synonym table,
\* the table's canonical value if it is a key, and the requested name
\* otherwise; exactly one warning was emitted per entry that is not a value
\* of the table, of the matching kind and in order; resolving the resolved
\* list again gives the same list; and with no output_request key the
\* result is ['cf_mean'].
C1_OutputRequestResolved ==
    _output_request # None =>
        LET cfg == cfg_output_request
            temp == IF cfg.kind = "str" THEN <<cfg.val>>
                    ELSE IF cfg.kind = "list" THEN cfg.val
                    ELSE <<"cf_mean">>
            out == _output_request.val
            flagged == {i \in 1..Len(temp) : temp[i] \notin CorrectionValues}
        IN  /\ Len(out) = Len(temp)
            /\ \A i \in 1..Len(temp) :
                  /\ temp[i] \in CorrectionValues => out[i] = temp[i]
                  /\ temp[i] \in CorrectionKeys \ CorrectionValues
                        => out[i] = corrections[temp[i]]
                  /\ temp[i] \notin CorrectionKeys \cup CorrectionValues
                        => out[i] = temp[i]
            /\ Len(warnings) = Cardinality(flagged)
            /\ \A w \in 1..Len(warnings) :
                  \E i \in flagged :
                     /\ Cardinality({j \in flagged : j < i}) = w - 1
                     /\ warnings[w].request = temp[i]
                     /\ warnings[w].kind =
                           IF temp[i] \in CorrectionKeys THEN "corrected"
                           ELSE "unrecognized"
            /\ ResolveFrom(out, 1).out = out
            /\ cfg.kind = "absent" => out = <<"cf_mean">>

\* C1 witness: a list holding an alias and an unknown name has been
\* resolved, with one warning for each.
C1_Witness ==
    /\ cfg_output_request = [kind |-> "list", val |-> <<"cf", "wind_speed">>]
    /\ _output_request = Val(<<"cf_mean", "wind_speed">>)
    /\ Len(warnings) = 2

OutIdle ==
    /\ cfg_output_request = [kind |-> "absent"]
    /\ _output_request = None
    /\ warnings = <<>>

\* ========================================================================
\* SAMAnalysisConfig.points_control
\* ========================================================================

\* math.ceil(a / b) for a >= 0, b >= 1 (analysis_configs.py:90, 94).
CeilFloored(a, b) == a \div b

Ceil(a, b) == (a + b - 1) \div b

Unbound == [kind |-> "unbound"]

\* The local variable sites_per_split when line 97 is reached
\* (analysis_configs.py:85-94): no branch assigns it for an option that is
\* neither a cluster mode nor 'local'.
SitesPerSplit ==
    IF option = "peregrine" \/ option = "eagle" THEN Val(Ceil(npoints, nodes))
    ELSE IF option = "local" THEN Val(Ceil(npoints, ppn))
    ELSE Unbound

\* The property access (analysis_configs.py:80-99).  Reading the unassigned
\* local at line 97 raises UnboundLocalError before PointsControl is built.
PointsControl ==
    /\ IF _pc = None
       THEN IF SitesPerSplit = Unbound
            THEN /\ pc_ret' = [kind |-> "raise", exc |-> "UnboundLocalError"]
                 /\ UNCHANGED _pc
            ELSE LET pc == [npoints |-> npoints,
                            sites_per_split |-> SitesPerSplit.val]
                 IN  /\ _pc' = Val(pc)
                     /\ pc_ret' = [kind |-> "return", val |-> pc]
       ELSE /\ pc_ret' = [kind |-> "return", val |-> _pc.val]
            /\ UNCHANGED _pc
    /\ UNCHANGED <<option, nodes, ppn, npoints, outVars, fileVars, lcoeVars,
                   runVars, cfgVars>>

PcInit ==
    /\ option \in {"peregrine", "eagle", "local", "slurm"}
    /\ nodes \in 1..MaxDiv
    /\ ppn \in 1..MaxDiv
    /\ npoints \in 0..MaxSites
    /\ _pc = None
    /\ pc_ret = [kind |-> "none"]

PcIdle ==
    /\ option = "local"
    /\ nodes = 1
    /\ ppn = 1
    /\ npoints = 0
    /\ _pc = None
    /\ pc_ret = [kind |-> "none"]

\* ========================================================================
\* Text
\* ========================================================================

\* Python's `s in t` for two strings.
IsSubstr(s, t) ==
    \E i \in 0..(Len(t) - Len(s)) : SubSeq(t, i + 1, i + Len(s)) = s

\* t.endswith(s)
EndsWith(t, s) ==
    Len(t) >= Len(s) /\ SubSeq(t, Len(t) - Len(s) + 1, Len(t)) = s

\* str(n) for an integer n >= 0.
RECURSIVE IntStr(_)
IntStr(n) ==
    LET digit == <<"0", "1", "2", "3", "4", "5", "6", "7", "8", "9">>
    IN  IF n < 10 THEN <<digit[n + 1]>>
        ELSE IntStr(n \div 10) \o <<digit[(n % 10) + 1]>>

\* A year is an int (field n) or a str (field s), as the configuration file
\* gives it.
IntYear(n) == [t |-> "int", n |-> n, s |-> <<>>]
StrYear(s) == [t |-> "str", n |-> 0, s |-> s]

\* str(year): the year's textual form.
Str(year) == IF year.t = "int" THEN IntStr(year.n) ELSE year.s

\* The characters of the field names in the modelled paths.
FieldNameChars == {"y"}

\* s has a named field '{name}' opening at the brace s[i].
NamedFieldAt(s, i) ==
    \E j \in (i + 2)..Len(s) :
        /\ s[j] = "}"
        /\ \A k \in (i + 1)..(j - 1) : s[k] \in FieldNameChars

\* fname.format(arg) with one positional argument, from character i on, `used`
\* being the number of '{}' fields filled so far: '{}' is the next positional
\* field (IndexError when the one argument is used up), '{name}' is a named
\* field (KeyError, there is no keyword argument), '{{' and '}}' are escaped
\* braces, any other brace is a ValueError. (Numbered fields, conversions
\* and format specs are not in the alphabet of the modelled paths.)
RECURSIVE FormatFrom(_, _, _, _)
FormatFrom(s, i, arg, used) ==
    IF i > Len(s) THEN [ok |-> TRUE, val |-> <<>>]
    ELSE IF s[i] = "{" /\ i < Len(s) /\ s[i + 1] = "}"
    THEN IF used >= 1 THEN [ok |-> FALSE, exc |-> "IndexError"]
         ELSE LET rest == FormatFrom(s, i + 2, arg, used + 1)
              IN  IF rest.ok THEN [ok |-> TRUE, val |-> arg \o rest.val]
                  ELSE rest
    ELSE IF s[i] = "{" /\ NamedFieldAt(s, i)
    THEN [ok |-> FALSE, exc |-> "KeyError"]
    ELSE IF s[i] \in {"{", "}"} /\ i < Len(s) /\ s[i + 1] = s[i]
    THEN LET rest == FormatFrom(s, i + 2, arg, used)
         IN  IF rest.ok THEN [ok |-> TRUE, val |-> <<s[i]>> \o rest.val]
             ELSE rest
    ELSE IF s[i] \in {"{", "}"} THEN [ok |-> FALSE, exc |-> "ValueError"]
    ELSE LET rest == FormatFrom(s, i + 1, arg, used)
         IN  IF rest.ok THEN [ok |-> TRUE, val |-> <<s[i]>> \o rest.val]
             ELSE rest

\* fname.format(year)
Format(s, year) == FormatFrom(s, 1, Str(year), 0)

\* str(flist) for a list of plain strings: "['a', 'b']".
RECURSIVE ReprFrom(_, _)
ReprFrom(flist, i) ==
    IF i > Len(flist) THEN <<>>
    ELSE (IF i > 1 THEN <<",", " ">> ELSE <<>>)
         \o <<"'">> \o flist[i] \o <<"'">> \o ReprFrom(flist, i + 1)

ReprList(flist) == <<"[">> \o ReprFrom(flist, 1) \o <<"]">>

PLACEHOLDER == <<"{", "}">>
PIPELINE == <<"P", "I", "P", "E", "L", "I", "N", "E">>

\* ========================================================================
\* GenConfig.res_files and EconConfig.cf_files
\* ========================================================================

\* The paths and years of the modelled configurations.
TemplatePath == <<"r", "{", "}", ".", "h", "5">>
Year2012Path == <<"r", "2", "0", "1", "2", ".", "h", "5">>
Year2013Path == <<"r", "2", "0", "1", "3", ".", "h", "5">>
PlainPath == <<"r", ".", "h", "5">>
PipelineTemplatePath == <<"P", "I", "P", "E", "L", "I", "N", "E", "{", "}">>
PipelineOut2012 == <<"e", "2", "0", "1", "2", ".", "h", "5">>
PipelineOut2013 == <<"e", "2", "0", "1", "3", ".", "h", "5">>

TwoFieldPath == <<"r", "{", "}", "{", "}">>
StrayBracePath == <<"r", "{", "}", "}">>
NamedFieldPath == <<"r", "{", "}", "{", "y", "}">>

FileNames == {TemplatePath, Year2012Path, PlainPath, PIPELINE,
              PipelineTemplatePath, TwoFieldPath, StrayBracePath,
              NamedFieldPath}
YearValues == {IntYear(2012), IntYear(2013),
               StrYear(IntStr(2012)), StrYear(IntStr(2013))}
MaybeMissing == {Year2013Path, PipelineOut2012}

\* What Pipeline.parse_previous(dirout, 'econ', target='fpath') may return:
\* the path(s) the previous stage produced.
PipelineOutputs == {<<PipelineOut2012>>, <<PipelineOut2012, PipelineOut2013>>}

\* [fname.format(year) for year in self.years], from year i on: the list, or
\* the exception of the first format call that fails.
RECURSIVE ExpandFrom(_, _, _)
ExpandFrom(f, ys, i) ==
    IF i > Len(ys) THEN [ok |-> TRUE, val |-> <<>>]
    ELSE LET first == Format(f, ys[i])
         IN  IF ~first.ok THEN first
             ELSE LET rest == ExpandFrom(f, ys, i + 1)
                  IN  IF rest.ok
                      THEN [ok |-> TRUE, val |-> <<first.val>> \o rest.val]
                      ELSE rest

ExpandFirstYearOnly(f, ys) ==
    IF ys = <<>> THEN [ok |-> TRUE, val |-> <<>>]
    ELSE ExpandFrom(f, <<ys[1]>>, 1)

Expand(f, ys) == ExpandFrom(f, ys, 1)

\* AnalysisConfig.check_files(flist): every path of the list must exist.
CheckFilesOk(flist) == \A i \in 1..Len(flist) : flist[i] \notin missing

Raise(exc) == [kind |-> "raise", exc |-> exc]
Return(v) == [kind |-> "return", val |-> v]

\* The loop over self.years (analysis_configs.py:390-394), from year i on:
\* `year not in str(self._cf_files)` is a TypeError when year is not a str.
RECURSIVE YearTextCheck(_, _, _)
YearTextCheck(ys, text, i) ==
    IF i > Len(ys) THEN "ok"
    ELSE IF ys[i].t # "str" THEN "TypeError"
    ELSE IF ~IsSubstr(ys[i].s, text) THEN "ConfigError"
    ELSE YearTextCheck(ys, text, i + 1)

\* `'PIPELINE' not in fname` (analysis_configs.py:383): the year checks run.
YearChecksRunAlways(f) == TRUE

YearChecksRun(f) == ~IsSubstr(PIPELINE, f)

\* Lines 239-246 of res_files, for the list flist.
ResFilesChecks(flist) ==
    IF ~CheckFilesOk(flist) THEN Raise("ConfigError")
    ELSE IF Len(flist) # Len(years) THEN Raise("ConfigError")
    ELSE Return(flist)

\* GenConfig.res_files (analysis_configs.py:230-246): check_files and the
\* count check run on every access.
ResFiles ==
    /\ cls = "gen"
    /\ naccess < MaxAccess
    /\ naccess' = naccess + 1
    /\ IF _res_files = None
       THEN IF IsSubstr(PLACEHOLDER, fname)
            THEN LET e == Expand(fname, years)
                 IN  IF e.ok
                     THEN /\ _res_files' = Val(e.val)
                          /\ checked' = Append(checked, e.val)
                          /\ file_ret' = ResFilesChecks(e.val)
                     ELSE /\ file_ret' = Raise(e.exc)
                          /\ UNCHANGED <<_res_files, checked>>
            ELSE /\ _res_files' = Val(<<fname>>)
                 /\ checked' = Append(checked, <<fname>>)
                 /\ file_ret' = ResFilesChecks(<<fname>>)
       ELSE /\ checked' = Append(checked, _res_files.val)
            /\ file_ret' = ResFilesChecks(_res_files.val)
            /\ UNCHANGED _res_files
    /\ UNCHANGED <<cls, fname, years, missing, _cf_files, outVars, pcVars,
                   lcoeVars, runVars, cfgVars>>

\* Lines 380-396 of cf_files, once self._cf_files has been set to flist.
CfFilesChecks(flist) ==
    IF ~CheckFilesOk(flist) THEN Raise("ConfigError")
    ELSE IF ~YearChecksRun(fname) THEN Return(flist)
    ELSE IF Len(flist) # Len(years) THEN Raise("ConfigError")
    ELSE LET c == YearTextCheck(years, ReprList(flist), 1)
         IN  IF c = "ok" THEN Return(flist) ELSE Raise(c)

\* The first access of cf_files once the file set is resolved: the set is
\* cached before anything is checked (analysis_configs.py:371-380).
CfFilesResolved(flist) ==
    /\ _cf_files' = Val(flist)
    /\ checked' = Append(checked, flist)
    /\ file_ret' = CfFilesChecks(flist)

\* EconConfig.cf_files (analysis_configs.py:366-396).
CfFiles ==
    /\ cls = "econ"
    /\ naccess < MaxAccess
    /\ naccess' = naccess + 1
    /\ IF _cf_files = None
       THEN IF IsSubstr(PLACEHOLDER, fname)
            THEN LET e == Expand(fname, years)
                 IN  IF e.ok THEN CfFilesResolved(e.val)
                     ELSE /\ file_ret' = Raise(e.exc)
                          /\ UNCHANGED <<_cf_files, checked>>
            ELSE IF IsSubstr(PIPELINE, fname)
            THEN \E out \in PipelineOutputs : CfFilesResolved(out)
            ELSE CfFilesResolved(<<fname>>)
       ELSE /\ file_ret' = Return(_cf_files.val)
            /\ UNCHANGED <<_cf_files, checked>>
    /\ UNCHANGED <<cls, fname, years, missing, _res_files, outVars, pcVars,
                   lcoeVars, runVars, cfgVars>>

FileInit ==
    /\ cls \in {"gen", "econ"}
    /\ fname \in FileNames
    /\ years \in SeqsUpTo(YearValues, MaxYears)
    /\ missing \in SUBSET MaybeMissing
    /\ _res_files = None
    /\ _cf_files = None
    /\ checked = <<>>
    /\ naccess = 0
    /\ file_ret = [kind |-> "none"]

FileIdle ==
    /\ cls = "gen"
    /\ fname = PlainPath
    /\ years = <<>>
    /\ missing = {}
    /\ _res_files = None
    /\ _cf_files = None
    /\ checked = <<>>
    /\ naccess = 0
    /\ file_ret = [kind |-> "none"]

\* ========================================================================
\* LCOE: tables
\* ========================================================================

\* A pandas table: the name of its index (GID or NoName), the index labels,
\* the column labels in order, and per column its values in row order.
NoName == <<>>
GID == <<"g", "i", "d">>
CAPACITY_FACTOR == <<"c", "a", "p", "a", "c", "i", "t", "y", "_", "f", "a", "c", "t", "o", "r">>
OFFSHORE == <<"o", "f", "f", "s", "h", "o", "r", "e">>
CF_MEANS == <<"c", "f", "_", "m", "e", "a", "n", "s">>
CAPITAL_COST == <<"c", "a", "p", "i", "t", "a", "l", "_", "c", "o", "s", "t">>
SITE_SUFFIX == <<"_", "s", "i", "t", "e">>
CSV == <<".", "c", "s", "v">>
NaN == -1

Table(iname, index, cols, vals) ==
    [iname |-> iname, index |-> index, cols |-> cols, vals |-> vals]

Range(seq) == {seq[i] : i \in 1..Len(seq)}

\* `label in df`: label is one of the columns.
HasColumn(df, label) == label \in Range(df.cols)

\* df[label]: the values of the column.
Column(df, label) ==
    df.vals[CHOOSE k \in 1..Len(df.cols) : df.cols[k] = label]

\* A pandas RangeIndex of n rows: 0 .. n-1.
RangeIndex(n) == [i \in 1..n |-> i - 1]

\* A Series with index `from` aligned to the labels `to`: the value at the
\* same label, NaN for a label the Series does not have.
Align(values, from, to) ==
    [i \in 1..Len(to) |->
        IF \E j \in 1..Len(from) : from[j] = to[i]
        THEN values[CHOOSE j \in 1..Len(from) : from[j] = to[i]]
        ELSE NaN]

\* df.set_index('gid', drop=True)
SetIndexGid(df) ==
    LET k == CHOOSE k \in 1..Len(df.cols) : df.cols[k] = GID
        keep == [i \in 1..(Len(df.cols) - 1) |-> IF i < k THEN i ELSE i + 1]
    IN  Table(GID, df.vals[k],
              [i \in 1..Len(keep) |-> df.cols[keep[i]]],
              [i \in 1..Len(keep) |-> df.vals[keep[i]]])

Unique(seq) == \A i, j \in 1..Len(seq) : seq[i] = seq[j] => i = j

\* pd.merge(left, right, how='left', left_index=True, right_index=True,
\*          suffixes=['', '_site'], validate='1:1') when both indexes are
\* unique: the rows and index of left, the columns of left followed by those
\* of right, a right column whose label left also has getting the suffix.
Merge(left, right) ==
    Table(left.iname, left.index,
          left.cols \o [k \in 1..Len(right.cols) |->
                           IF HasColumn(left, right.cols[k])
                           THEN right.cols[k] \o SITE_SUFFIX
                           ELSE right.cols[k]],
          left.vals \o [k \in 1..Len(right.cols) |->
                           Align(right.vals[k], right.index, left.index)])

\* str(df.columns.values): "['a' 'b']".
RECURSIVE ReprArrayFrom(_, _)
ReprArrayFrom(labels, i) ==
    IF i > Len(labels) THEN <<>>
    ELSE (IF i > 1 THEN <<" ">> ELSE <<>>)
         \o <<"'">> \o labels[i] \o <<"'">> \o ReprArrayFrom(labels, i + 1)

ReprArray(labels) == <<"[">> \o ReprArrayFrom(labels, 1) \o <<"]">>

\* ========================================================================
\* LCOE: the inputs of the model
\* ========================================================================

\* Site-attribute tables: gid as a plain column, gid as the index, no gid at
\* all, a repeated gid, and an attribute named like a column of site_df.
GidColumnTable ==
    Table(NoName, RangeIndex(2), <<GID, CAPITAL_COST>>, <<<<1, 2>>, <<10, 20>>>>)
GidIndexTable == Table(GID, <<1, 2>>, <<CAPITAL_COST>>, <<<<10, 20>>>>)
NoGidTable == Table(NoName, RangeIndex(2), <<CAPITAL_COST>>, <<<<10, 20>>>>)
RepeatedGidTable ==
    Table(NoName, RangeIndex(2), <<GID, CAPITAL_COST>>, <<<<1, 1>>, <<10, 20>>>>)
CapacityFactorTable ==
    Table(GID, <<0, 1>>, <<CAPACITY_FACTOR>>, <<<<30, 40>>>>)

CsvPath == <<"s", ".", "c", "s", "v">>
TxtPath == <<"s", ".", "t", "x", "t">>

\* pd.read_csv(path): the table stored in the file, with a RangeIndex.
ReadCsv(path) == GidColumnTable

\* What the site_data setter may be handed.
SiteDataInputs ==
    {[kind |-> "str", path |-> CsvPath], [kind |-> "str", path |-> TxtPath],
     [kind |-> "other"]}
    \cup {[kind |-> "df", table |-> t] :
            t \in {GidColumnTable, GidIndexTable, NoGidTable,
                   RepeatedGidTable, CapacityFactorTable}}

\* The cf file: its dataset names and its meta table (RangeIndex, a gid
\* column, and optionally offshore flags and mean capacity factors).
DsetName(year) == <<"c", "f", "_">> \o Str(year)
CF_2012_STD == <<"c", "f", "_", "2", "0", "1", "2", "_", "s", "t", "d">>
LCOE_DSET == <<"l", "c", "o", "e">>

DsetLists == {<<LCOE_DSET>>,
              <<DsetName(IntYear(2012)), CF_MEANS>>,
              <<CF_MEANS, LCOE_DSET>>,
              <<CF_2012_STD, CF_MEANS>>,
              <<DsetName(IntYear(2013))>>}

MetaTables ==
    {Table(NoName, RangeIndex(2), <<GID>> \o extra.cols,
           <<gids>> \o extra.vals) :
        gids \in {<<0, 1>>, <<1, 2>>},
        extra \in {[cols |-> <<>>, vals |-> <<>>],
                   [cols |-> <<OFFSHORE>>, vals |-> <<<<0, 1>>>>],
                   [cols |-> <<CF_MEANS>>, vals |-> <<<<50, 60>>>>],
                   [cols |-> <<OFFSHORE, CF_MEANS>>,
                    vals |-> <<<<0, 1>>, <<50, 60>>>>]}}

\* cfh[name]: the dataset's values, one per row of meta (the values stand for
\* the dataset they come from).
DsetValues(name) == IF name = CF_MEANS THEN <<70, 80>> ELSE <<90, 95>>

\* ========================================================================
\* LCOE.site_data (setter)
\* ========================================================================

\* self._site_data after lines 89-93: assigned from a .csv path or from a
\* DataFrame, left as it was for any other input.
AssignedSiteData(inp) ==
    IF inp.kind = "str"
    THEN IF EndsWith(inp.path, CSV) THEN Val(ReadCsv(inp.path)) ELSE _site_data
    ELSE IF inp.kind = "df" THEN Val(inp.table)
    ELSE _site_data

\* The setter (lcoe.py:79-109).
SetSiteData(inp) ==
    LET a == AssignedSiteData(inp)
    IN  /\ last_op' = [op |-> "set_site_data", inp |-> inp]
        /\ IF a = Unset
           THEN /\ lcoe_ret' = Raise("Exception")
                /\ UNCHANGED _site_data
           ELSE IF ~HasColumn(a.val, GID) /\ a.val.iname # GID
           THEN /\ lcoe_ret' = Raise("KeyError")
                /\ _site_data' = a
           ELSE IF a.val.iname # GID
           THEN /\ lcoe_ret' = Return(None)
                /\ _site_data' = Val(SetIndexGid(a.val))
           ELSE /\ lcoe_ret' = Return(None)
                /\ _site_data' = a
        /\ UNCHANGED <<cf_year, dsets, meta, _meta, _site_df, cf_source,
                       n_offshore, n_merge, outVars, pcVars, fileVars, cfgVars>>

\* An assignment to lcoe.site_data by the user of the instance.
SiteDataSetter ==
    /\ \E inp \in SiteDataInputs : SetSiteData(inp)
    /\ UNCHANGED runVars

\* ========================================================================
\* LCOE.site_df and LCOE.check_offshore
\* ========================================================================

\* cfh[name] through the output handler: the dataset, or the handler's
\* KeyError for a name that is not a dataset of the file.
DsetRead(name) ==
    IF name \in Range(dsets) THEN [ok |-> TRUE, vals |-> DsetValues(name)]
    ELSE [ok |-> FALSE, exc |-> "KeyError"]

\* The source of cf_arr (lcoe.py:179-191).  The tests on the datasets are
\* substring tests on the text of the list of dataset names.
CfSelection ==
    LET name == DsetName(cf_year)
        listing == ReprList(dsets)
    IN  IF IsSubstr(name, listing)
        THEN [src |-> "year"] @@ DsetRead(name)
        ELSE IF IsSubstr(CF_MEANS, listing)
        THEN [src |-> "dset_means"] @@ DsetRead(CF_MEANS)
        ELSE IF HasColumn(meta, CF_MEANS)
        THEN [src |-> "meta_means", ok |-> TRUE,
              vals |-> Align(Column(meta, CF_MEANS), meta.index,
                             Column(meta, GID))]
        ELSE [src |-> "none", ok |-> FALSE, exc |-> "KeyError"]

\* pd.DataFrame({'capacity_factor': cf_arr}, index=site_gids)
NewSiteDf(vals) ==
    Table(GID, Column(meta, GID), <<CAPACITY_FACTOR>>, <<vals>>)

\* series.astype(bool) for 0/1 flags.
AsBool(values) == [i \in 1..Len(values) |-> IF values[i] = 0 THEN 0 ELSE 1]

\* `'offshore' not in self._site_df` (lcoe.py:209).
OffshoreNotAttachedAlways(df) == TRUE

OffshoreNotAttached(df) == ~HasColumn(df, OFFSHORE)

\* check_offshore (lcoe.py:204-226) on the attribute sdf (Unset or a table):
\* the attribute afterwards, whether the flag was attached, whether
\* site_data was merged, and the exception raised ("" for none).
CheckOffshoreOn(sdf) ==
    IF sdf # Unset /\ OffshoreNotAttached(sdf.val) /\ HasColumn(meta, OFFSHORE)
    THEN LET flagged ==
                 Table(sdf.val.iname, sdf.val.index,
                       Append(sdf.val.cols, OFFSHORE),
                       Append(sdf.val.vals,
                              Align(AsBool(Column(meta, OFFSHORE)),
                                    meta.index, sdf.val.index)))
         IN  IF _site_data = Unset
             THEN [site_df |-> Val(flagged), attached |-> 1, merged |-> 0,
                   exc |-> ""]
             ELSE IF Unique(flagged.index) /\ Unique(_site_data.val.index)
             THEN [site_df |-> Val(Merge(flagged, _site_data.val)),
                   attached |-> 1, merged |-> 1, exc |-> ""]
             ELSE [site_df |-> Val(flagged), attached |-> 1, merged |-> 0,
                   exc |-> "MergeError"]
    ELSE [site_df |-> sdf, attached |-> 0, merged |-> 0, exc |-> ""]

\* The end of the site_df access (lcoe.py:198-202) on the attribute sdf.
SiteDfReturn(sdf) ==
    LET r == IF ~IsSubstr(OFFSHORE, ReprArray(sdf.val.cols))
             THEN CheckOffshoreOn(sdf)
             ELSE [site_df |-> sdf, attached |-> 0, merged |-> 0, exc |-> ""]
    IN  /\ _site_df' = r.site_df
        /\ n_offshore' = n_offshore + r.attached
        /\ n_merge' = n_merge + r.merged
        /\ lcoe_ret' = IF r.exc = "" THEN Return(r.site_df.val)
                       ELSE Raise(r.exc)

\* The site_df property (lcoe.py:166-202).
SiteDfAccess ==
    /\ last_op' = [op |-> "site_df"]
    /\ _meta' = Val(meta)
    /\ IF _site_df = Unset
       THEN LET sel == CfSelection
            IN  IF sel.ok
                THEN /\ cf_source' = sel.src
                     /\ SiteDfReturn(Val(NewSiteDf(sel.vals)))
                ELSE /\ lcoe_ret' = Raise(sel.exc)
                     /\ UNCHANGED <<_site_df, cf_source, n_offshore, n_merge>>
       ELSE /\ SiteDfReturn(_site_df)
            /\ UNCHANGED cf_source
    /\ UNCHANGED <<cf_year, dsets, meta, _site_data, outVars, pcVars, fileVars, cfgVars>>

\* An access of lcoe.site_df by the user of the instance.
SiteDf == SiteDfAccess /\ UNCHANGED runVars

\* The meta property (lcoe.py:151-164): the meta data of the cf file, read
\* on the first access.
Meta ==
    /\ last_op' = [op |-> "meta"]
    /\ _meta' = IF _meta = Unset THEN Val(meta) ELSE _meta
    /\ lcoe_ret' = Return(_meta'.val)
    /\ UNCHANGED <<cf_year, dsets, meta, _site_data, _site_df, cf_source,
                   n_offshore, n_merge, outVars, pcVars, fileVars, runVars,
                   cfgVars>>

\* A direct call of check_offshore (lcoe.py:204-226).
CheckOffshore ==
    LET r == CheckOffshoreOn(_site_df)
    IN  /\ last_op' = [op |-> "check_offshore"]
        /\ _site_df' = r.site_df
        /\ n_offshore' = n_offshore + r.attached
        /\ n_merge' = n_merge + r.merged
        /\ lcoe_ret' = IF r.exc = "" THEN Return(None) ELSE Raise(r.exc)
        /\ UNCHANGED <<cf_year, dsets, meta, _site_data, _meta, cf_source,
                       outVars, pcVars, fileVars, runVars, cfgVars>>

\* The instance as LCOE.__init__ leaves it with site_data=None
\* (lcoe.py:47-54): none of _site_data, _meta, _site_df exists yet.
LcoeInit ==
    /\ cf_year \in {IntYear(2012), StrYear(<<"m", "y">>)}
    /\ dsets \in DsetLists
    /\ meta \in MetaTables
    /\ _site_data = Unset
    /\ _meta = Unset
    /\ _site_df = Unset
    /\ cf_source = "none"
    /\ n_offshore = 0
    /\ n_merge = 0
    /\ last_op = [op |-> "init"]
    /\ lcoe_ret = [kind |-> "none"]

LcoeIdle ==
    /\ cf_year = IntYear(2012)
    /\ dsets = <<LCOE_DSET>>
    /\ meta = Table(NoName, RangeIndex(2), <<GID>>, <<<<0, 1>>>>)
    /\ _site_data = Unset
    /\ _meta = Unset
    /\ _site_df = Unset
    /\ cf_source = "none"
    /\ n_offshore = 0
    /\ n_merge = 0
    /\ last_op = [op |-> "init"]
    /\ lcoe_ret = [kind |-> "none"]

\* ========================================================================
\* LCOE.handle_fout
\* ========================================================================

H5 == <<".", "h", "5">>

\* s.replace(old, new), from character i on: every occurrence of old, left
\* to right, without overlap.
RECURSIVE ReplaceFrom(_, _, _, _)
ReplaceFrom(s, old, new, i) ==
    IF i > Len(s) THEN <<>>
    ELSE IF i + Len(old) - 1 <= Len(s) /\ SubSeq(s, i, i + Len(old) - 1) = old
    THEN new \o ReplaceFrom(s, old, new, i + Len(old))
    ELSE <<s[i]>> \o ReplaceFrom(s, old, new, i + 1)

Replace(s, old, new) == ReplaceFrom(s, old, new, 1)

\* Gen.make_h5_fpath(fout, dirout): the file name, given the .h5 extension
\* if it lacks it, joined to the output directory.
MakeH5Fpath(fout, dirout) ==
    dirout \o <<"/">> \o (IF EndsWith(fout, H5) THEN fout ELSE fout \o H5)

\* The year tag test of handle_fout (lcoe.py:144), on the text it is given.
YearTagMissingAlways(year, text) == TRUE

YearTagMissing(year, text) == ~IsSubstr(Str(year), text)

\* LCOE.handle_fout (lcoe.py:123-149).
HandleFout(fout, dirout, year) ==
    LET fpath == MakeH5Fpath(fout, dirout)
    IN  IF YearTagMissing(year, fpath) /\ EndsWith(fpath, H5)
        THEN Replace(fpath, H5, <<"_">> \o Str(year) \o H5)
        ELSE fpath

\* ========================================================================
\* LCOE.run_direct, LCOE.run and LCOE.flush
\* ========================================================================

MaxSplit == 2    \* largest partition size of a points control
MaxFlush == 2    \* calls of flush that are followed
MaxWrites == 2   \* writes after which lcoe_to_disk() is not called again

\* The inputs of the modelled runs.
RunSites == {<<>>, <<1>>, <<0, 1>>, <<1, 2, 3>>}
RunSiteData ==
    {None, [kind |-> "str", path |-> CsvPath], [kind |-> "str", path |-> TxtPath],
     [kind |-> "df", table |-> GidIndexTable]}
OutName == <<"l">>
OutNameH5 == <<"l", ".", "h", "5">>
OutDir == <<"o">>
OutDir2012 == <<"o", "2", "0", "1", "2">>
OutDirH5 == <<"a", ".", "h", "5">>
OutName2012H5 == <<"l", "2", "0", "1", "2", ".", "h", "5">>
RunDsetLists == {<<LCOE_DSET>>, <<DsetName(IntYear(2012)), CF_MEANS>>}
RunMetaTables ==
    {t \in MetaTables : t.cols \in {<<GID>>, <<GID, OFFSHORE, CF_MEANS>>}}

\* The partitions of a points control: chunk i of the site list, chunks of
\* k sites in order, the last one possibly shorter.
NumSplits(sites, k) == Ceil(Len(sites), k)
Split(sites, k, i) ==
    SubSeq(sites, (i - 1) * k + 1,
           IF i * k < Len(sites) THEN i * k ELSE Len(sites))

\* The rows, from row i on, whose label is one of sites.
RECURSIVE KeptRows(_, _, _)
KeptRows(index, sites, i) ==
    IF i > Len(index) THEN <<>>
    ELSE (IF index[i] \in sites THEN <<i>> ELSE <<>>)
         \o KeptRows(index, sites, i + 1)

\* df[mask] for the boolean mask labels.isin(sites), one entry per row.
MaskRows(df, labels, sites) ==
    LET rows == KeptRows(labels, sites, 1)
    IN  Table(df.iname, [r \in 1..Len(rows) |-> df.index[rows[r]]], df.cols,
              [c \in 1..Len(df.cols) |->
                  [r \in 1..Len(rows) |-> df.vals[c][rows[r]]]])

FilterRows(df, sites) == MaskRows(df, df.index, sites)

\* run_direct fails with the exception e.
RunFails(e) == run_pc' = "failed" /\ run_ret' = e

\* Lines 349-353: the points control is formed (get_pc is handed points,
\* points_range and sam_files; the argument sites_per_split is not read, the
\* partitions are those of the points control) and the instance constructed;
\* __init__ hands a true site_data to the setter, and the truth value of a
\* DataFrame is a ValueError.
RunConstruct ==
    /\ run_pc = "start"
    /\ IF site_data_arg = None
       THEN /\ run_pc' = "constructed"
            /\ UNCHANGED <<lcoeVars, run_ret>>
       ELSE IF site_data_arg.kind = "df"
       THEN /\ RunFails(Raise("ValueError"))
            /\ UNCHANGED lcoeVars
       ELSE /\ SetSiteData(site_data_arg)
            /\ IF lcoe_ret'.kind = "raise"
               THEN RunFails(lcoe_ret')
               ELSE run_pc' = "constructed" /\ UNCHANGED run_ret
    /\ UNCHANGED <<pc_sites, pc_split, n_workers, site_data_arg,
                   return_obj, flush_ret, _fout,
                   _dirout, kwargs_site_df, dispatched, returned, _out, writes,
                   n_flush, outVars, pcVars, fileVars, cfgVars>>

\* set(pc.sites) - set(lcoe.meta['gid'].values) (lcoe.py:355)
MissingSitesOneOnly ==
    LET diff == Range(pc_sites) \ Range(Column(meta, GID))
    IN  IF diff = {} THEN {} ELSE {CHOOSE g \in diff : TRUE}

MissingSites == Range(pc_sites) \ Range(Column(meta, GID))

\* The error of lines 357-360: its message is formatted with the whole set.
MissingSitesError(diff) ==
    [kind |-> "raise", exc |-> "Exception", names |-> diff]

\* Lines 355-360: the requested sites are checked against the meta data.
RunValidate ==
    /\ run_pc = "constructed"
    /\ _meta' = Val(meta)
    /\ IF MissingSites # {}
       THEN RunFails(MissingSitesError(MissingSites))
       ELSE run_pc' = "validated" /\ UNCHANGED run_ret
    /\ UNCHANGED <<cf_year, dsets, meta, _site_data, _site_df, cf_source,
                   n_offshore, n_merge, last_op, lcoe_ret>>
    /\ UNCHANGED <<pc_sites, pc_split, n_workers, site_data_arg,
                   return_obj, flush_ret, _fout,
                   _dirout, kwargs_site_df, dispatched, returned, _out, writes,
                   n_flush, outVars, pcVars, fileVars, cfgVars>>

\* Line 363: lcoe.site_df is accessed twice, for the table and for the mask
\* of the requested sites; the second access completes kwargs['site_df'].
RunSiteDf ==
    /\ run_pc \in {"validated", "site_df"}
    /\ SiteDfAccess
    /\ IF lcoe_ret'.kind = "raise"
       THEN RunFails(lcoe_ret') /\ UNCHANGED kwargs_site_df
       ELSE IF run_pc = "validated"
       THEN run_pc' = "site_df" /\ UNCHANGED <<run_ret, kwargs_site_df>>
       ELSE /\ run_pc' = "dispatch"
            /\ kwargs_site_df' =
                  Val(MaskRows(lcoe_ret.val, lcoe_ret'.val.index,
                               Range(pc_sites)))
            /\ UNCHANGED run_ret
    /\ UNCHANGED <<pc_sites, pc_split, n_workers, site_data_arg,
                   return_obj, flush_ret, _fout,
                   _dirout, dispatched, returned, _out, writes, n_flush>>

\* LCOE.run (lcoe.py:273-295) on partition i: the site table is cut down to
\* the partition's sites and handed to the simulation engine, which returns
\* one result per site of the table, or fails.
RunResult(i) ==
    FilterRows(kwargs_site_df.val,
               Range(Split(pc_sites, pc_split, i))).index

\* The partitions that are inside LCOE.run: handed over and not back.
InFlight == Range(dispatched) \ DOMAIN returned

\* Lines 366-372: the execution driver hands the next partition, in
\* partition order, to LCOE.run: one at a time when n_workers is 1
\* (execute_single), up to n_workers at a time otherwise (execute_parallel).
RunDispatch ==
    /\ run_pc = "dispatch"
    /\ Len(dispatched) < NumSplits(pc_sites, pc_split)
    /\ Cardinality(InFlight) < n_workers
    /\ dispatched' = Append(dispatched, Len(dispatched) + 1)
    /\ UNCHANGED <<run_pc, run_ret, returned>>
    /\ UNCHANGED <<pc_sites, pc_split, n_workers, site_data_arg,
                   return_obj, flush_ret, _fout,
                   _dirout, kwargs_site_df, _out, writes, n_flush, lcoeVars,
                   outVars, pcVars, fileVars, cfgVars>>

\* LCOE.run on a partition that is in flight ends: its result goes back to
\* the driver, or it fails and the driver raises the failure to run_direct,
\* whatever else is in flight.
RunPartition ==
    /\ run_pc = "dispatch"
    /\ \E i \in InFlight :
          \E ok \in BOOLEAN :
             IF ok
             THEN /\ returned' = returned @@ (i :> RunResult(i))
                  /\ UNCHANGED <<run_pc, run_ret>>
             ELSE /\ RunFails(Raise("Exception"))
                  /\ UNCHANGED returned
    /\ UNCHANGED dispatched
    /\ UNCHANGED <<pc_sites, pc_split, n_workers, site_data_arg,
                   return_obj, flush_ret, _fout,
                   _dirout, kwargs_site_df, _out, writes, n_flush, lcoeVars,
                   outVars, pcVars, fileVars, cfgVars>>

\* The merged result of the driver: the results of the partitions 1..n in
\* partition order.
RECURSIVE Merged(_, _)
Merged(results, n) ==
    IF n = 0 THEN <<>> ELSE Merged(results, n - 1) \o results[n]

\* Lines 368-375: every partition has returned, the driver returns the
\* merged result and it is assigned to lcoe.out.
RunMergeFirstReturn ==
    /\ run_pc = "dispatch"
    /\ DOMAIN returned # {}
    /\ _out' = Val(returned[CHOOSE i \in DOMAIN returned : TRUE])
    /\ run_pc' = "merged"
    /\ UNCHANGED <<pc_sites, pc_split, n_workers, site_data_arg,
                   return_obj, flush_ret, _fout,
                   _dirout, kwargs_site_df, dispatched, returned, writes,
                   n_flush, run_ret, lcoeVars, outVars, pcVars, fileVars, cfgVars>>

RunMerge ==
    /\ run_pc = "dispatch"
    /\ DOMAIN returned = 1..NumSplits(pc_sites, pc_split)
    /\ _out' = Val(Merged(returned, NumSplits(pc_sites, pc_split)))
    /\ run_pc' = "merged"
    /\ UNCHANGED <<pc_sites, pc_split, n_workers, site_data_arg,
                   return_obj, flush_ret, _fout,
                   _dirout, kwargs_site_df, dispatched, returned, writes,
                   n_flush, run_ret, lcoeVars, outVars, pcVars, fileVars, cfgVars>>

\* The guard of flush (lcoe.py:265): fout is a str and out is not empty.
FlushWritesOnAnyPath == _fout # None

FlushWrites == _fout # None /\ _out.val # <<>>

\* The call of Outputs.write_means that lcoe_to_disk(fout) makes
\* (lcoe.py:239-243); flush is the number of the flush call it is made by,
\* 0 for a call of lcoe_to_disk by the user.
WriteMeans(fout, flush) == [fout |-> fout, data |-> _out.val, call |-> flush]

\* LCOE.flush with lcoe_to_disk (lcoe.py:245-271, 228-243): one call of
\* Outputs.write_means when the guard holds, nothing otherwise.
FlushCall ==
    /\ n_flush' = n_flush + 1
    /\ flush_ret' = Return(None)
    /\ _meta' = IF FlushWrites THEN Val(meta) ELSE _meta
    /\ writes' = IF FlushWrites
                 THEN Append(writes,
                             WriteMeans(HandleFout(_fout.val, _dirout, cf_year),
                                        n_flush + 1))
                 ELSE writes
    /\ UNCHANGED <<cf_year, dsets, meta, _site_data, _site_df, cf_source,
                   n_offshore, n_merge, last_op, lcoe_ret>>

\* The instance that run_direct constructed, as a returned value.
LcoeInstance == [kind |-> "LCOE"]

\* Lines 378-382: run_direct flushes and returns the instance, or None when
\* return_obj is false.
RunFlush ==
    /\ run_pc = "merged"
    /\ FlushCall
    /\ run_pc' = "done"
    /\ run_ret' = IF return_obj THEN Return(LcoeInstance) ELSE Return(None)
    /\ UNCHANGED <<pc_sites, pc_split, n_workers, site_data_arg,
                   return_obj, _fout,
                   _dirout, kwargs_site_df, dispatched, returned, _out,
                   outVars, pcVars, fileVars, cfgVars>>

\* A further call of flush on the instance that run_direct returned.
Flush ==
    /\ run_pc = "done"
    /\ run_ret = Return(LcoeInstance)
    /\ n_flush < MaxFlush
    /\ FlushCall
    /\ UNCHANGED run_ret
    /\ UNCHANGED <<run_pc, pc_sites, pc_split, n_workers, site_data_arg,
                   return_obj, _fout, _dirout, kwargs_site_df, dispatched, returned, _out,
                   outVars, pcVars, fileVars, cfgVars>>

\* The default of lcoe_to_disk's argument fout (lcoe.py:228).
LCOE_OUT_H5 == <<"l", "c", "o", "e", "_", "o", "u", "t", ".", "h", "5">>

\* A call of lcoe_to_disk() on the instance that run_direct returned
\* (lcoe.py:228-243): Outputs.write_means is called whatever fout and out
\* are.
LcoeToDisk ==
    /\ run_pc = "done"
    /\ run_ret = Return(LcoeInstance)
    /\ Len(writes) < MaxWrites
    /\ _meta' = IF _meta = Unset THEN Val(meta) ELSE _meta
    /\ writes' = Append(writes, WriteMeans(LCOE_OUT_H5, 0))
    /\ UNCHANGED <<run_pc, pc_sites, pc_split, n_workers, site_data_arg,
                   return_obj, flush_ret, _fout, _dirout, kwargs_site_df,
                   dispatched, returned, _out, n_flush, run_ret, cf_year,
                   dsets, meta, _site_data, _site_df, cf_source, n_offshore,
                   n_merge, last_op, lcoe_ret, outVars, pcVars, fileVars,
                   cfgVars>>

\* run_direct is about to be called.
RunInit ==
    /\ run_pc = "start"
    /\ pc_sites \in RunSites
    /\ pc_split \in 1..MaxSplit
    /\ n_workers \in {1, 2}
    /\ site_data_arg \in RunSiteData
    /\ return_obj \in BOOLEAN
    /\ flush_ret = [kind |-> "none"]
    /\ _fout \in {None, Val(OutName), Val(OutNameH5), Val(OutName2012H5)}
    /\ _dirout \in {OutDir, OutDir2012, OutDirH5}
    /\ kwargs_site_df = Unset
    /\ dispatched = <<>>
    /\ returned = <<>>
    /\ _out = Unset
    /\ writes = <<>>
    /\ n_flush = 0
    /\ run_ret = [kind |-> "none"]

RunIdle ==
    /\ run_pc = "idle"
    /\ pc_sites = <<>>
    /\ pc_split = 1
    /\ n_workers = 1
    /\ site_data_arg = None
    /\ return_obj = TRUE
    /\ flush_ret = [kind |-> "none"]
    /\ _fout = None
    /\ _dirout = OutDir
    /\ kwargs_site_df = Unset
    /\ dispatched = <<>>
    /\ returned = <<>>
    /\ _out = Unset
    /\ writes = <<>>
    /\ n_flush = 0
    /\ run_ret = [kind |-> "none"]

\* The cf file and the instance of a run.
RunLcoeInit ==
    /\ cf_year \in {IntYear(2012), StrYear(<<"m", "y">>)}
    /\ dsets \in RunDsetLists
    /\ meta \in RunMetaTables
    /\ _site_data = Unset
    /\ _meta = Unset
    /\ _site_df = Unset
    /\ cf_source = "none"
    /\ n_offshore = 0
    /\ n_merge = 0
    /\ last_op = [op |-> "init"]
    /\ lcoe_ret = [kind |-> "none"]

\* ========================================================================
\* The optional fields: GenConfig.curtailment and downscale, ExclConfig
\* exclusions, use_blocks and filter, EconConfig.site_data
\* ========================================================================

\* The values a JSON configuration can give a key, and the values the
\* properties make of them: the Python type and the text of the value.
Py(type, text) == [type |-> type, text |-> text]
PyNone == Py("NoneType", "None")
PyFalse == Py("bool", "False")
PyTrue == Py("bool", "True")
Absent == [type |-> "absent", text |-> ""]
RawValues == {PyNone, PyFalse, PyTrue, Py("int", "0"), Py("int", "1"),
              Py("str", ""), Py("str", "5min")}
FieldNames == {"curtailment", "downscale", "exclusions", "use_blocks",
               "filter", "site_data"}

\* bool(v)
Truthy(v) == v \notin {PyNone, PyFalse, Py("int", "0"), Py("str", "")}

\* The value __init__ gives the private attribute, which the property takes
\* for "not resolved yet" (analysis_configs.py:175-176, 260-263, 352).
Sentinel(f) == IF f = "use_blocks" THEN PyFalse ELSE PyNone

\* The private attribute after the resolution block of property f.
Resolved(f) ==
    IF raw = Absent THEN Sentinel(f)
    ELSE IF f = "curtailment"
    THEN IF Truthy(raw) THEN Py("Curtailment", raw.text) ELSE PyNone
    ELSE IF f = "downscale"
    THEN IF Truthy(raw) THEN Py("str", raw.text) ELSE PyNone
    ELSE IF f = "use_blocks"
    THEN IF Truthy(raw) THEN PyTrue ELSE PyFalse
    ELSE raw

\* An access of the property: the resolution block runs while the private
\* attribute is the sentinel.
FieldAccess ==
    /\ n_field_acc < MaxAccess
    /\ n_field_acc' = n_field_acc + 1
    /\ IF _field = Sentinel(prop)
       THEN /\ n_resolve' = n_resolve + 1
            /\ _field' = Resolved(prop)
            /\ field_ret' = Resolved(prop)
       ELSE /\ field_ret' = _field
            /\ UNCHANGED <<n_resolve, _field>>
    /\ UNCHANGED <<prop, raw, outVars, pcVars, fileVars, lcoeVars, runVars>>

FieldInit ==
    /\ prop \in FieldNames
    /\ raw \in RawValues \cup {Absent}
    /\ _field = Sentinel(prop)
    /\ n_resolve = 0
    /\ n_field_acc = 0
    /\ field_ret = Absent

FieldIdle ==
    /\ prop = "curtailment"
    /\ raw = Absent
    /\ _field = PyNone
    /\ n_resolve = 0
    /\ n_field_acc = 0
    /\ field_ret = Absent

\* C2 (as claimed): an access with an option that is neither a cluster mode
\* nor 'local' fails with ConfigError, and no partition plan is cached.
C2_UnrecognizedOptionIsConfigError ==
    (option \notin {"peregrine", "eagle", "local"} /\ pc_ret.kind # "none")
        => (pc_ret = [kind |-> "raise", exc |-> "ConfigError"] /\ _pc = None)

\* C3: the chunk size of every plan that is formed is ceil(total / divisor):
\* the least k with k * divisor >= total, the divisor being the node count
\* for a cluster mode and the process count for 'local'.
C3_ChunkSizeIsCeil ==
    _pc # None =>
        LET d == IF option = "local" THEN ppn ELSE nodes
            k == _pc.val.sites_per_split
        IN  /\ option \in {"peregrine", "eagle", "local"}
            /\ _pc.val.npoints = npoints
            /\ k * d >= npoints
            /\ (k - 1) * d < npoints

\* C3 witness: 4 sites over 3 local processes (and 1 node) give chunks of 2.
C3_Witness ==
    /\ option = "local" /\ ppn = 3 /\ nodes = 1 /\ npoints = 4
    /\ _pc # None /\ _pc.val.sites_per_split = 2

\* C4 (as claimed): every plan that is formed has chunk size >= 1, the empty
\* site set included.
C4_ChunkSizeAtLeastOne ==
    _pc # None => _pc.val.sites_per_split >= 1

\* C5 (as claimed): after an access, every path that contains the '{}'
\* placeholder has been expanded into a list as long as the year list whose
\* i-th path contains the i-th year's textual form (res_files and cf_files
\* alike); a GenConfig path without the placeholder has resolved to the
\* one-element list of itself; and res_files has failed with ConfigError
\* whenever the resolved count differs from the number of analysis years.
C5_EveryPlaceholderPathExpands ==
    naccess >= 1 =>
        LET field == IF cls = "gen" THEN _res_files ELSE _cf_files
        IN  /\ IsSubstr(PLACEHOLDER, fname) =>
                  /\ field # None
                  /\ Len(field.val) = Len(years)
                  /\ \A i \in 1..Len(years) :
                        IsSubstr(Str(years[i]), field.val[i])
            /\ (cls = "gen" /\ ~IsSubstr(PLACEHOLDER, fname)) =>
                  _res_files = Val(<<fname>>)
            /\ (cls = "gen" /\ _res_files # None
                  /\ Len(_res_files.val) # Len(years)) =>
                  file_ret = Raise("ConfigError")

\* C5 (amended): after an access, a path with exactly one '{}' field and no
\* other brace has been expanded into a list as long as the year list whose
\* i-th path contains the i-th year's textual form (res_files and cf_files
\* alike); a GenConfig path without the placeholder has resolved to the
\* one-element list of itself; and res_files has failed with ConfigError
\* whenever the resolved count differs from the number of analysis years.
C5_YearTemplateExpansion ==
    naccess >= 1 =>
        LET field == IF cls = "gen" THEN _res_files ELSE _cf_files
            braces == {i \in 1..Len(fname) : fname[i] \in {"{", "}"}}
        IN  /\ (IsSubstr(PLACEHOLDER, fname) /\ Cardinality(braces) = 2) =>
                  /\ field # None
                  /\ Len(field.val) = Len(years)
                  /\ \A i \in 1..Len(years) :
                        IsSubstr(Str(years[i]), field.val[i])
            /\ (cls = "gen" /\ ~IsSubstr(PLACEHOLDER, fname)) =>
                  _res_files = Val(<<fname>>)
            /\ (cls = "gen" /\ _res_files # None
                  /\ Len(_res_files.val) # Len(years)) =>
                  file_ret = Raise("ConfigError")

\* C5 witness: res_files has expanded 'r{}.h5' over the years [2012, 2013]
\* and returned the two paths.
C5_Witness ==
    /\ cls = "gen" /\ fname = TemplatePath
    /\ years = <<IntYear(2012), IntYear(2013)>>
    /\ _res_files = Val(<<Year2012Path, Year2013Path>>)
    /\ file_ret = Return(<<Year2012Path, Year2013Path>>)

\* C6 (as claimed): on the resolving access of cf_files with a cf_file that
\* does not contain PIPELINE, a resolved count different from the number of
\* years is a ConfigError, and so is an analysis year whose textual form is
\* in none of the resolved paths.
C6_NonPipelineMismatchIsConfigError ==
    (cls = "econ" /\ naccess = 1 /\ ~IsSubstr(PIPELINE, fname)
       /\ _cf_files # None) =>
        LET flist == _cf_files.val
        IN  /\ Len(flist) # Len(years) => file_ret = Raise("ConfigError")
            /\ (\E i \in 1..Len(years) : \A j \in 1..Len(flist) :
                    ~IsSubstr(Str(years[i]), flist[j]))
                  => file_ret = Raise("ConfigError")

\* C7 (as claimed): cf_files verifies the existence of the resolved paths in
\* the year-template and literal modes, and a set resolved through the
\* PIPELINE sentinel is returned without existence, count or year-text check.
C7_PipelineSkipsExistenceCheck ==
    (cls = "econ" /\ naccess = 1 /\ _cf_files # None) =>
        IF ~IsSubstr(PLACEHOLDER, fname) /\ IsSubstr(PIPELINE, fname)
        THEN /\ checked = <<>>
             /\ file_ret = Return(_cf_files.val)
        ELSE /\ checked = <<_cf_files.val>>
             /\ ~CheckFilesOk(_cf_files.val) => file_ret = Raise("ConfigError")

\* C7 (amended): cf_files hands every resolved set to the existence check,
\* once, when the set is first resolved, in the year-template, PIPELINE and
\* literal modes alike, and fails with ConfigError if a path is missing; when
\* cf_file contains PIPELINE only the year-count and year-text checks are
\* skipped, so a set whose paths all exist is returned.
C7_ExistenceCheckedInEveryMode ==
    (cls = "econ" /\ naccess >= 1 /\ _cf_files # None) =>
        /\ checked = <<_cf_files.val>>
        /\ (naccess = 1 /\ ~CheckFilesOk(_cf_files.val)) =>
              file_ret = Raise("ConfigError")
        /\ (naccess = 1 /\ CheckFilesOk(_cf_files.val)
              /\ IsSubstr(PIPELINE, fname)) =>
              file_ret = Return(_cf_files.val)

\* C7 witness: a PIPELINE cf_file resolved to one existing path for two
\* analysis years is checked for existence and returned.
C7_Witness ==
    /\ cls = "econ" /\ fname = PIPELINE /\ naccess = 1
    /\ years = <<IntYear(2012), IntYear(2013)>>
    /\ _cf_files = Val(<<PipelineOut2012>>)
    /\ checked = <<(<<PipelineOut2012>>)>>
    /\ file_ret = Return(<<PipelineOut2012>>)

\* C8 (as claimed): a call of the site_data setter with an input that is
\* neither a .csv path nor a DataFrame fails with an error, whatever state
\* the instance is in.
C8_UnusableSiteDataAlwaysFails ==
    (/\ last_op.op = "set_site_data"
     /\ \/ last_op.inp.kind = "other"
        \/ (last_op.inp.kind = "str" /\ ~EndsWith(last_op.inp.path, CSV)))
        => lcoe_ret.kind = "raise"

\* C9 (as claimed): after a site_df access the capacity factors come from
\* the first source that exists, in the order: the dataset named exactly
\* cf_<cf_year>, the dataset cf_means, the cf_means column of meta; and if
\* none exists the access has failed with KeyError and built no table.
C9_FirstAvailableSource ==
    last_op.op = "site_df" =>
        LET year == DsetName(cf_year) \in Range(dsets)
            means == CF_MEANS \in Range(dsets)
            column == HasColumn(meta, CF_MEANS)
        IN  /\ year => cf_source = "year"
            /\ (~year /\ means) => cf_source = "dset_means"
            /\ (~year /\ ~means /\ column) => cf_source = "meta_means"
            /\ (~year /\ ~means /\ ~column) =>
                  /\ cf_source = "none"
                  /\ lcoe_ret = Raise("KeyError")
                  /\ _site_df = Unset

\* C10: over any sequence of site_df accesses, check_offshore calls and
\* site_data assignments, the offshore flag is attached at most once, the
\* site-attribute table is merged at most once, and once the site table
\* exists (after the first successful access) no step changes its rows, its
\* gid index or its columns.
C10_OffshoreMergeAtMostOnce ==
    [][/\ n_offshore' <= 1
       /\ n_merge' <= 1
       /\ _site_df # Unset => _site_df' = _site_df]_vars

\* C10 witness: check_offshore has been called again on a site table that
\* already carries the offshore flag and the merged site attributes.
C10_Witness ==
    /\ last_op.op = "check_offshore"
    /\ n_offshore = 1 /\ n_merge = 1
    /\ _site_df # Unset
    /\ _site_df.val.cols = <<CAPACITY_FACTOR, OFFSHORE, CAPITAL_COST>>
    /\ _site_df.val.index = <<1, 2>>

\* C11: a run of run_direct that requests a site identifier the meta data of
\* the cf file does not have never gets past the site check: no partition is
\* dispatched, nothing is written, the run ends in failure, and the error of
\* the site check names exactly the requested identifiers that are absent.
\* (A run whose construction fails is over before the site check.)
C11_MissingSitesFailBeforeDispatch ==
    /\ [](Range(pc_sites) \ Range(Column(meta, GID)) # {} =>
            /\ run_pc \in {"start", "constructed", "failed"}
            /\ dispatched = <<>>
            /\ writes = <<>>
            /\ _out = Unset
            /\ run_pc = "failed" =>
                  /\ run_ret.kind = "raise"
                  /\ _meta # Unset =>
                        run_ret = [kind |-> "raise", exc |-> "Exception",
                                   names |-> Range(pc_sites)
                                               \ Range(Column(meta, GID))])
    /\ (Range(pc_sites) \ Range(Column(meta, GID)) # {}) ~> (run_pc = "failed")

\* C11 witness: sites 1, 2, 3 were requested with a .csv site_data, the meta
\* data has the gids 0 and 1, and the run has failed naming the sites 2 and 3
\* without any dispatch or write.
C11_Witness ==
    /\ run_pc = "failed"
    /\ pc_sites = <<1, 2, 3>>
    /\ Column(meta, GID) = <<0, 1>>
    /\ site_data_arg = [kind |-> "str", path |-> CsvPath]
    /\ run_ret = [kind |-> "raise", exc |-> "Exception", names |-> {2, 3}]
    /\ dispatched = <<>> /\ writes = <<>>

\* C12: a call of flush writes nothing and returns normally when no output
\* path is configured or the aggregate is empty, and issues exactly one
\* write, of the aggregate, when the path is a string and the aggregate is
\* not empty.
C12_FlushWritesOnceOrNothing ==
    [][n_flush' # n_flush =>
          /\ n_flush' = n_flush + 1
          /\ flush_ret' = Return(None)
          /\ IF _fout = None \/ _out.val = <<>>
             THEN writes' = writes
             ELSE /\ Len(writes') = Len(writes) + 1
                  /\ SubSeq(writes', 1, Len(writes)) = writes
                  /\ writes'[Len(writes')].data = _out.val]_vars

\* C12 witness: flush was called twice on an instance with an output path
\* and the results of two sites, and each call issued one write.
C12_Witness ==
    /\ n_flush = 2
    /\ flush_ret = Return(None)
    /\ _fout = Val(OutNameH5)
    /\ _out = Val(<<0, 1>>)
    /\ Len(writes) = 2
    /\ writes[1].call = 1 /\ writes[2].call = 2
    /\ writes[2].data = <<0, 1>>

\* C13 (as claimed): every file that flush writes to has the analysis year
\* in its file name, the part of the path after the output directory.
C13_FileNameCarriesYear ==
    \A k \in {w \in 1..Len(writes) : writes[w].call > 0} :
        LET path == writes[k].fout
            slash == CHOOSE i \in 1..Len(path) :
                        /\ path[i] = "/"
                        /\ \A j \in (i + 1)..Len(path) : path[j] # "/"
        IN  IsSubstr(Str(cf_year), SubSeq(path, slash + 1, Len(path)))

\* C14: nothing is written before the execution driver has returned the
\* merged result of all partitions: when a write has happened the run is
\* past line 375, every partition was dispatched and has returned, out is
\* the merged result with one entry per requested site, and that is what
\* was written; a run that has failed has written nothing.
C14_WriteOnlyAfterMerge ==
    /\ [](run_pc = "failed" => writes = <<>>)
    /\ [](writes # <<>> =>
            /\ run_pc = "done"
            /\ Range(dispatched) = 1..Len(dispatched)
            /\ DOMAIN returned = 1..Len(dispatched)
            /\ Len(dispatched) * pc_split >= Len(pc_sites)
            /\ _out = Val(pc_sites)
            /\ \A k \in 1..Len(writes) : writes[k].data = pc_sites)
    /\ [][writes' # writes => run_pc \in {"merged", "done"}]_vars

\* C14 witness: a parallel run over two sites in two partitions has
\* written the merged result.
C14_Witness ==
    /\ run_pc = "done"
    /\ pc_sites = <<0, 1>> /\ pc_split = 1 /\ n_workers = 2
    /\ dispatched = <<1, 2>>
    /\ DOMAIN returned = {1, 2}
    /\ Len(writes) = 1
    /\ writes[1].data = <<0, 1>>

\* C16 (as claimed): with a cf_file that does not contain PIPELINE, every
\* access of cf_files that returns, the first or a later one, returns a list
\* with one path per analysis year in which the text of every analysis year
\* occurs; so an access after one that failed these checks does not return
\* the rejected list.
C16_ReturnedCfFilesAreValidated ==
    (/\ cls = "econ"
     /\ ~IsSubstr(PIPELINE, fname)
     /\ file_ret.kind = "return") =>
        /\ Len(file_ret.val) = Len(years)
        /\ \A i \in 1..Len(years) :
              \E j \in 1..Len(file_ret.val) :
                 IsSubstr(Str(years[i]), file_ret.val[j])

\* C15 (as claimed): over any sequence of accesses of a derived field its
\* resolution runs at most once, whatever the resolved value is, None and
\* False included, and a later access returns the value of the first.
C15_ResolvedAtMostOnce ==
    /\ n_resolve <= 1
    /\ n_field_acc >= 1 => field_ret = _field

\* ========================================================================
\* Specifications
\* ========================================================================
InitOut == OutInit /\ PcIdle /\ FileIdle /\ LcoeIdle /\ RunIdle /\ FieldIdle
NextOut == OutputRequest
SpecOut == InitOut /\ [][NextOut]_vars

InitPc == PcInit /\ OutIdle /\ FileIdle /\ LcoeIdle /\ RunIdle /\ FieldIdle
NextPc == PointsControl
SpecPc == InitPc /\ [][NextPc]_vars

InitFiles == FileInit /\ OutIdle /\ PcIdle /\ LcoeIdle /\ RunIdle /\ FieldIdle
NextFiles == ResFiles \/ CfFiles
SpecFiles == InitFiles /\ [][NextFiles]_vars

InitLcoe == LcoeInit /\ OutIdle /\ PcIdle /\ FileIdle /\ RunIdle /\ FieldIdle
NextLcoe == SiteDataSetter \/ SiteDf \/ CheckOffshore \/ Meta
SpecLcoe == InitLcoe /\ [][NextLcoe]_vars

InitRun == RunInit /\ RunLcoeInit /\ OutIdle /\ PcIdle /\ FileIdle /\ FieldIdle
NextRun ==
    \/ RunConstruct \/ RunValidate \/ RunSiteDf \/ RunDispatch
    \/ RunPartition \/ RunMerge \/ RunFlush \/ Flush \/ LcoeToDisk
SpecRun == InitRun /\ [][NextRun]_vars

\* Lines 349-360 of run_direct are straight-line code of the calling
\* process: the construction and the site check are taken once reached.
SpecRunFair == SpecRun /\ WF_vars(RunConstruct \/ RunValidate)

InitFields ==
    FieldInit /\ OutIdle /\ PcIdle /\ FileIdle /\ LcoeIdle /\ RunIdle
NextFields == FieldAccess
SpecFields == InitFields /\ [][NextFields]_vars

=============================================================================
